---- MODULE Spec2Model ----
(***************************************************************************)
(* Model of the demand-estimation core of inventoryalpha:                  *)
(*   src/src/brain/state_estimator.py   StateEstimator (scalar Kalman)     *)
(*   src/src/logic/inventory_manager.py InventoryManager (stock policy)    *)
(*                                                                         *)
(* Numbers.  The program computes on IEEE doubles.  The model computes on  *)
(* exact extended rationals <<n, d>>: d > 0 is the fraction n/d in lowest  *)
(* terms, <<1,0>> and <<-1,0>> are +inf and -inf, <<0,0>> is NaN (which is *)
(* also numpy's missing marker).  Rounding error of finite doubles is not  *)
(* modelled; the special values and the places they arise are.             *)
(***************************************************************************)
EXTENDS Integers, Sequences, FiniteSets, TLC

\* ------------------------------------------------------------ bounds
\* Total predict/update executions explored on one estimator instance.
MaxSteps == 6
\* Longest series handed to run_filter.
MaxLen == 3
\* Top-level calls explored on one estimator instance.
MaxCalls == 3
\* Longest argument list handed to batch_analysis.
MaxBatch == 3

\* ------------------------------------------------------------ numbers
NaN == <<0, 0>>
PosInf == <<1, 0>>
NegInf == <<-1, 0>>
Zero == <<0, 1>>
One == <<1, 1>>

Abs(k) == IF k < 0 THEN -k ELSE k

Sign(k) == IF k < 0 THEN -1 ELSE IF k > 0 THEN 1 ELSE 0

RECURSIVE GCD(_, _)
GCD(a, b) == IF b = 0 THEN a ELSE GCD(b, a % b)

\* n/d in lowest terms with a positive denominator; d = 0 gives inf or NaN.
Norm(n, d) ==
    IF d = 0 THEN <<Sign(n), 0>>
    ELSE LET g == GCD(Abs(n), Abs(d))
         IN  IF d < 0 THEN <<(0 - n) \div g, (0 - d) \div g>> ELSE <<n \div g, d \div g>>

Num(k) == <<k, 1>>

\* np.isnan
isnan(a) == a = NaN

IsFinite(a) == a[2] > 0

Neg(a) == <<0 - a[1], a[2]>>

Add(a, b) ==
    IF isnan(a) \/ isnan(b) THEN NaN
    ELSE IF ~IsFinite(a) THEN (IF ~IsFinite(b) /\ b # a THEN NaN ELSE a)
    ELSE IF ~IsFinite(b) THEN b
    ELSE LET g == GCD(a[2], b[2])
         IN  Norm(a[1] * (b[2] \div g) + b[1] * (a[2] \div g), (a[2] \div g) * b[2])

Sub(a, b) == Add(a, Neg(b))

Mul(a, b) ==
    IF isnan(a) \/ isnan(b) THEN NaN
    ELSE IF ~IsFinite(a) \/ ~IsFinite(b)
         THEN (IF a[1] = 0 \/ b[1] = 0 THEN NaN ELSE <<Sign(a[1]) * Sign(b[1]), 0>>)
    ELSE LET g1 == GCD(Abs(a[1]), b[2])
             g2 == GCD(Abs(b[1]), a[2])
         IN  Norm((a[1] \div g1) * (b[1] \div g2), (a[2] \div g2) * (b[2] \div g1))

\* IEEE division as numpy performs it: x/0 is +-inf, 0/0 and inf/inf are NaN.
Div(a, b) ==
    IF isnan(a) \/ isnan(b) THEN NaN
    ELSE IF ~IsFinite(b) THEN (IF ~IsFinite(a) THEN NaN ELSE Zero)
    ELSE IF ~IsFinite(a) THEN (IF b[1] < 0 THEN Neg(a) ELSE a)
    ELSE IF b[1] = 0 THEN <<Sign(a[1]), 0>>
    ELSE Mul(a, Norm(b[2], b[1]))

\* Comparisons; every comparison with NaN is false, as in IEEE arithmetic.
Lt(a, b) ==
    /\ ~isnan(a)
    /\ ~isnan(b)
    /\ a # b
    /\ IF ~IsFinite(a) THEN a = NegInf
       ELSE IF ~IsFinite(b) THEN b = PosInf
       ELSE Sub(b, a)[1] > 0

Leq(a, b) == ~isnan(a) /\ ~isnan(b) /\ (a = b \/ Lt(a, b))

Gt(a, b) == Lt(b, a)

Geq(a, b) == Leq(b, a)

\* ------------------------------------------------------------ StateEstimator
VARIABLES
    Q,              \* self.Q, process noise
    R,              \* self.R, measurement noise
    npScalars,      \* TRUE: Q, R and initial_uncertainty are numpy.float64 scalars;
                    \* FALSE: they are plain Python floats
    x,              \* self.x
    P,              \* self.P
    pc,             \* "idle", or the position inside a running run_filter
    series,         \* run_filter: its argument, the caller's array (kept after the call)
    n,              \* run_filter: len(series)
    i,              \* run_filter: loop index (0-based)
    estimates,      \* run_filter: local array
    uncertainties,  \* run_filter: local array
    op,             \* the method that executed last
    measurement,    \* the argument of the last update
    ret,            \* the tuple returned by the last initialize/predict/update
    rf_ret,         \* <<estimates, uncertainties>> returned by the last run_filter
    err,            \* the exception the last call raised, or "none"
    calls,          \* top-level calls made so far
    steps,          \* predict/update executions so far
    initCalls       \* initialize executions so far

est_vars == <<Q, R, npScalars, x, P, pc, series, n, i, estimates, uncertainties,
              op, measurement, ret, rf_ret, err, calls, steps, initCalls>>

\* InventoryManager
VARIABLES
    lead_time,      \* self.lead_time
    service_level,  \* self.service_level
    z_score,        \* self.z_score
    inv_op,         \* the method of InventoryManager that executed last
    inv_args,       \* the arguments of that call
    inv_ret,        \* what it returned: a result record, a frame (sequence of
                    \* records) or an array; <<>> when it raised
    inv_err         \* the exception it raised, or "none"

inv_vars == <<lead_time, service_level, z_score, inv_op, inv_args, inv_ret, inv_err>>

\* System matrices of the 1-D random walk.
F == One
H == One

\* Mutant of DefaultInitialUncertainty: the constructor's P = 1.0 is kept.
ConstructorUncertainty == One

\* initialize()'s default initial_uncertainty.
DefaultInitialUncertainty == Num(10)

\* Values the constructor and the callers pass.
NoiseValues == {Zero, One}
Measurements == {NaN, Zero, Num(4)}
InitialValues == {Zero, Num(4)}
InitialUncertainties == {Zero, Num(2)}

RECURSIVE SeqsUpTo(_, _)
SeqsUpTo(S, k) ==
    IF k = 0 THEN {<<>>}
    ELSE LET shorter == SeqsUpTo(S, k - 1)
         IN  shorter \cup {Append(s, e) : s \in {t \in shorter : Len(t) = k - 1}, e \in S}

\* np.zeros(n)
zeros(k) == [j \in 1..k |-> Zero]

\* predict: x = F x, P = F P F + Q
PredictX(xx) == Mul(F, xx)

\* Mutant of PredictP: the process noise is not added.
PredictPWithoutQ(PP, QQ) == Mul(Mul(F, PP), F)

PredictP(PP, QQ) == Add(Mul(Mul(F, PP), F), QQ)

\* update: k_denominator = H P H + R
KDenominator(PP, RR) == Add(Mul(Mul(H, PP), H), RR)

\* A division of plain Python floats by zero raises ZeroDivisionError; with a
\* numpy.float64 operand it yields inf/NaN and a RuntimeWarning only.
DivisionRaises(np, den) == ~np /\ IsFinite(den) /\ den[1] = 0

\* Mutant of Gain: the prior variance left out of the denominator, K = P / R.
GainOverR(PP, den) == Div(Mul(PP, H), Sub(den, PP))

\* update: K = P H / k_denominator
Gain(PP, den) == Div(Mul(PP, H), den)

\* update: residual = measurement - H x
Residual(m, xx) == Sub(m, Mul(H, xx))

\* update: x = x + K residual
UpdateX(xx, KK, res) == Add(xx, Mul(KK, res))

\* Mutant of UpdateP: the factor P is left out, P = 1 - K H.
UpdatePWithoutP(PP, KK) == Sub(One, Mul(KK, H))

\* update: P = (1 - K H) P
UpdateP(PP, KK) == Mul(Sub(One, Mul(KK, H)), PP)

\* Mutant of UpdateOutcome: the missing marker is not recognised and goes
\* through the gain update like any other measurement.
UpdateOutcomeNoSkip(xx, PP, RR, np, m) ==
    LET den == KDenominator(PP, RR)
    IN  IF DivisionRaises(np, den)
        THEN [x |-> xx, P |-> PP, ret |-> <<>>, err |-> "ZeroDivisionError"]
        ELSE LET KK == Gain(PP, den)
                 nx == UpdateX(xx, KK, Residual(m, xx))
                 nP == UpdateP(PP, KK)
             IN  [x |-> nx, P |-> nP, ret |-> <<nx, nP, KK>>, err |-> "none"]

\* The whole of update(measurement) as a function of the state it reads:
\* the new x and P, the tuple returned and the exception raised.
UpdateOutcome(xx, PP, RR, np, m) ==
    IF isnan(m)
    THEN [x |-> xx, P |-> PP, ret |-> <<xx, PP>>, err |-> "none"]
    ELSE LET den == KDenominator(PP, RR)
         IN  IF DivisionRaises(np, den)
             THEN [x |-> xx, P |-> PP, ret |-> <<>>, err |-> "ZeroDivisionError"]
             ELSE LET KK == Gain(PP, den)
                      nx == UpdateX(xx, KK, Residual(m, xx))
                      nP == UpdateP(PP, KK)
                  IN  [x |-> nx, P |-> nP, ret |-> <<nx, nP, KK>>, err |-> "none"]

\* Mutant of InitialValue: the first observation is taken even when missing.
InitialValueUnchecked(s) == s[1]

\* run_filter: series[0] if not np.isnan(series[0]) else 0
InitialValue(s) == IF ~isnan(s[1]) THEN s[1] ELSE Zero

EstInit ==
    /\ Q \in NoiseValues
    /\ R \in NoiseValues
    /\ npScalars \in BOOLEAN
    /\ x = Zero
    /\ P = One
    /\ pc = "idle"
    /\ series = <<>>
    /\ n = 0
    /\ i = 0
    /\ estimates = <<>>
    /\ uncertainties = <<>>
    /\ op = "__init__"
    /\ measurement = Zero
    /\ ret = <<>>
    /\ rf_ret = <<>>
    /\ err = "none"
    /\ calls = 0
    /\ steps = 0
    /\ initCalls = 0

rf_locals == <<series, n, i, estimates, uncertainties>>

\* A direct call of initialize(initial_value, initial_uncertainty).
initialize(initial_value, initial_uncertainty) ==
    /\ UNCHANGED inv_vars
    /\ pc = "idle"
    /\ calls < MaxCalls
    /\ x' = initial_value
    /\ P' = initial_uncertainty
    /\ op' = "initialize"
    /\ ret' = <<>>
    /\ err' = "none"
    /\ calls' = calls + 1
    /\ initCalls' = initCalls + 1
    /\ UNCHANGED <<Q, R, npScalars, pc, rf_locals, measurement, rf_ret, steps>>

\* A direct call of predict().
predict ==
    /\ UNCHANGED inv_vars
    /\ pc = "idle"
    /\ calls < MaxCalls
    /\ steps < MaxSteps
    /\ x' = PredictX(x)
    /\ P' = PredictP(P, Q)
    /\ op' = "predict"
    /\ ret' = <<x', P'>>
    /\ err' = "none"
    /\ calls' = calls + 1
    /\ steps' = steps + 1
    /\ UNCHANGED <<Q, R, npScalars, pc, rf_locals, measurement, rf_ret, initCalls>>

\* A direct call of update(m).
update(m) ==
    /\ UNCHANGED inv_vars
    /\ pc = "idle"
    /\ calls < MaxCalls
    /\ steps < MaxSteps
    /\ LET o == UpdateOutcome(x, P, R, npScalars, m)
       IN  /\ x' = o.x
           /\ P' = o.P
           /\ ret' = o.ret
           /\ err' = o.err
    /\ op' = "update"
    /\ measurement' = m
    /\ calls' = calls + 1
    /\ steps' = steps + 1
    /\ UNCHANGED <<Q, R, npScalars, pc, rf_locals, rf_ret, initCalls>>

\* Mutant of EmptySeriesOutcome: an empty series is answered with two empty
\* arrays instead of an exception.
EmptySeriesReturnsEmpty == [err |-> "none", rf_ret |-> <<<<>>, <<>>>>]

\* run_filter on an empty series: series[0] raises IndexError (numpy: index 0
\* is out of bounds for axis 0 with size 0) and nothing is returned.
EmptySeriesOutcome == [err |-> "IndexError", rf_ret |-> <<>>]

\* run_filter(s), up to the loop: the arrays are allocated and the state is
\* initialized from series[0]; an empty series raises at series[0].
run_filter(s) ==
    /\ UNCHANGED inv_vars
    /\ pc = "idle"
    /\ calls < MaxCalls
    /\ steps + 2 * Len(s) <= MaxSteps
    /\ calls' = calls + 1
    /\ series' = s
    /\ IF Len(s) = 0
       THEN /\ err' = EmptySeriesOutcome.err
            /\ rf_ret' = EmptySeriesOutcome.rf_ret
            /\ op' = "run_filter"
            /\ UNCHANGED <<x, P, pc, n, i, estimates, uncertainties, ret, initCalls>>
       ELSE /\ rf_ret' = <<>>
            /\ n' = Len(s)
            /\ estimates' = zeros(Len(s))
            /\ uncertainties' = zeros(Len(s))
            /\ x' = InitialValue(s)
            /\ P' = DefaultInitialUncertainty
            /\ initCalls' = initCalls + 1
            /\ op' = "initialize"
            /\ ret' = <<>>
            /\ err' = "none"
            /\ i' = 0
            /\ pc' = "rf_predict"
    /\ UNCHANGED <<Q, R, npScalars, measurement, steps>>

\* run_filter, loop body: self.predict()
run_filter_predict ==
    /\ UNCHANGED inv_vars
    /\ pc = "rf_predict"
    /\ x' = PredictX(x)
    /\ P' = PredictP(P, Q)
    /\ op' = "predict"
    /\ ret' = <<x', P'>>
    /\ steps' = steps + 1
    /\ pc' = "rf_update"
    /\ UNCHANGED <<Q, R, npScalars, rf_locals, measurement, rf_ret, err, calls, initCalls>>

\* run_filter, loop body: self.update(series[i]), then the two stores.  An
\* exception of update leaves run_filter at once, without a return value.
run_filter_update ==
    /\ UNCHANGED inv_vars
    /\ pc = "rf_update"
    /\ LET m == series[i + 1]
           o == UpdateOutcome(x, P, R, npScalars, m)
       IN  /\ measurement' = m
           /\ x' = o.x
           /\ P' = o.P
           /\ ret' = o.ret
           /\ err' = o.err
           /\ IF o.err # "none"
              THEN /\ pc' = "idle"
                   /\ n' = 0
                   /\ i' = 0
                   /\ estimates' = <<>>
                   /\ uncertainties' = <<>>
              ELSE /\ estimates' = [estimates EXCEPT ![i + 1] = o.x]
                   /\ uncertainties' = [uncertainties EXCEPT ![i + 1] = o.P]
                   /\ i' = i + 1
                   /\ pc' = IF i + 1 < n THEN "rf_predict" ELSE "rf_return"
                   /\ UNCHANGED n
    /\ op' = "update"
    /\ steps' = steps + 1
    /\ UNCHANGED <<Q, R, npScalars, series, rf_ret, calls, initCalls>>

\* run_filter: return estimates, uncertainties
run_filter_return ==
    /\ UNCHANGED inv_vars
    /\ pc = "rf_return"
    /\ rf_ret' = <<estimates, uncertainties>>
    /\ op' = "run_filter"
    /\ pc' = "idle"
    /\ n' = 0
    /\ i' = 0
    /\ estimates' = <<>>
    /\ uncertainties' = <<>>
    /\ UNCHANGED <<Q, R, npScalars, series, x, P, measurement, ret, err, calls, steps, initCalls>>

EstNext ==
    \/ \E v \in InitialValues, u \in InitialUncertainties : initialize(v, u)
    \/ predict
    \/ \E m \in Measurements : update(m)
    \/ \E s \in SeqsUpTo(Measurements, MaxLen) : run_filter(s)
    \/ run_filter_predict
    \/ run_filter_update
    \/ run_filter_return

\* ------------------------------------------------------------ InventoryManager
\* scipy.stats.norm.ppf at the service levels explored (three decimals);
\* outside [0, 1] it is NaN, at the ends it is -inf and +inf.
ppf(s) ==
    IF isnan(s) \/ Lt(s, Zero) \/ Gt(s, One) THEN NaN
    ELSE IF s = Zero THEN NegInf
    ELSE IF s = One THEN PosInf
    ELSE CASE s = <<3, 10>> -> Norm(-524, 1000)
           [] s = <<1, 2>> -> Zero
           [] s = <<19, 20>> -> Norm(1645, 1000)

\* The largest r in lo..hi with r * r <= v.
RECURSIVE ISqrt(_, _, _)
ISqrt(v, lo, hi) ==
    IF lo >= hi THEN lo
    ELSE LET mid == (lo + hi + 1) \div 2
         IN  IF mid * mid <= v THEN ISqrt(v, mid, hi) ELSE ISqrt(v, lo, mid - 1)

\* np.sqrt, to three decimals (exact on the squares of such numbers); NaN for
\* a negative argument.
sqrt(a) ==
    IF isnan(a) \/ Lt(a, Zero) THEN NaN
    ELSE IF a = PosInf THEN PosInf
    ELSE Norm(ISqrt((a[1] * 1000000) \div a[2], 0, 46340), 1000)

\* Python's max(a, b): the first argument unless the second is greater.
max(a, b) == IF Gt(b, a) THEN b ELSE a

RECURSIVE Pow10(_)
Pow10(k) == IF k = 0 THEN 1 ELSE 10 * Pow10(k - 1)

\* Python's round(a, ndigits): to the nearest, ties to even; NaN and the
\* infinities are returned as they are.
round(a, ndigits) ==
    IF ~IsFinite(a) THEN a
    ELSE LET t == Mul(a, Num(Pow10(ndigits)))
             q == Abs(t[1]) \div t[2]
             r == Abs(t[1]) % t[2]
             up == IF 2 * r > t[2] THEN 1
                   ELSE IF 2 * r < t[2] THEN 0
                   ELSE q % 2
         IN  Norm(Sign(t[1]) * (q + up), Pow10(ndigits))

\* Mutant of SafetyStock: the uncertainty is not clamped at 0.
SafetyStockUnclamped(zz, L, demand_uncertainty) ==
    Mul(zz, sqrt(Mul(demand_uncertainty, L)))

\* detect_dead_inventory: safety_stock = z * sqrt(max(P, 0) * lead_time)
SafetyStock(zz, L, demand_uncertainty) ==
    Mul(zz, sqrt(Mul(max(demand_uncertainty, Zero), L)))

\* Mutant of DetectResult: the excess is divided by the target level
\* ("percentage overstocked") instead of by the current inventory.
DetectResultOverTarget(zz, L, sku, current_inventory, demand_estimate, demand_uncertainty) ==
    LET safety_stock == SafetyStock(zz, L, demand_uncertainty)
        cycle_stock == Mul(demand_estimate, L)
        target_level == Add(cycle_stock, safety_stock)
        excess == max(Zero, Sub(current_inventory, target_level))
        reduction_pct == IF Gt(current_inventory, Zero)
                         THEN Div(excess, target_level)
                         ELSE Zero
    IN  [sku |-> sku,
         current_inventory |-> round(current_inventory, 2),
         estimated_demand |-> round(demand_estimate, 2),
         target_inventory |-> round(target_level, 2),
         safety_stock |-> round(safety_stock, 2),
         excess_units |-> round(excess, 2),
         reduction_potential_pct |-> round(Mul(reduction_pct, Num(100)), 1)]

\* detect_dead_inventory: the record returned.
DetectResult(zz, L, sku, current_inventory, demand_estimate, demand_uncertainty) ==
    LET safety_stock == SafetyStock(zz, L, demand_uncertainty)
        cycle_stock == Mul(demand_estimate, L)
        target_level == Add(cycle_stock, safety_stock)
        excess == max(Zero, Sub(current_inventory, target_level))
        reduction_pct == IF Gt(current_inventory, Zero)
                         THEN Div(excess, current_inventory)
                         ELSE Zero
    IN  [sku |-> sku,
         current_inventory |-> round(current_inventory, 2),
         estimated_demand |-> round(demand_estimate, 2),
         target_inventory |-> round(target_level, 2),
         safety_stock |-> round(safety_stock, 2),
         excess_units |-> round(excess, 2),
         reduction_potential_pct |-> round(Mul(reduction_pct, Num(100)), 1)]

\* Mutant of SafetyStockSeries: np.maximum(series, 0) is left out.
SafetyStockSeriesUnclamped(zz, L, uncertainty_series) ==
    [j \in 1..Len(uncertainty_series) |-> Mul(zz, sqrt(Mul(uncertainty_series[j], L)))]

\* calculate_safety_stock: z * sqrt(np.maximum(series, 0) * lead_time), elementwise.
SafetyStockSeries(zz, L, uncertainty_series) ==
    [j \in 1..Len(uncertainty_series) |->
        Mul(zz, sqrt(Mul(IF isnan(uncertainty_series[j]) THEN NaN
                         ELSE max(uncertainty_series[j], Zero), L)))]

\* batch_analysis, the loop: indexing a list shorter than skus raises IndexError.
BatchRaises(skus, inventory_levels, demand_estimates, uncertainty_levels) ==
    \E j \in 1..Len(skus) :
        j > Len(inventory_levels) \/ j > Len(demand_estimates) \/ j > Len(uncertainty_levels)

\* batch_analysis, the loop: one result per element of skus.
BatchResults(zz, L, skus, inventory_levels, demand_estimates, uncertainty_levels) ==
    [j \in 1..Len(skus) |->
        DetectResult(zz, L, skus[j], inventory_levels[j], demand_estimates[j],
                     uncertainty_levels[j])]

Orderings(k) == {f \in [1..k -> 1..k] : \A a, b \in 1..k : a # b => f[a] # f[b]}

\* df.sort("reduction_potential_pct", descending=True): polars' sort with
\* maintain_order left at its default False promises no order among equal
\* keys, so every descending arrangement of the rows is a possible outcome.
SortedFrames(results) ==
    {[j \in 1..Len(results) |-> results[f[j]]] : f \in
        {g \in Orderings(Len(results)) :
            \A a, b \in 1..Len(results) :
                a < b => Geq(results[g[a]].reduction_potential_pct,
                             results[g[b]].reduction_potential_pct)}}

\* Values the callers pass.
LeadTimes == {Num(-1), Zero, Num(7)}
ServiceLevels == {Num(-1), Zero, <<3, 10>>, <<1, 2>>, <<19, 20>>, One, Num(2)}
Inventories == {Zero, Num(85), Num(500)}
Demands == {Num(-1), Zero, Num(10)}
Uncertainties == {Num(-1), Zero, One, Num(16)}
BatchInventories == {Num(85), Num(500)}
BatchDemands == {Num(10)}
BatchUncertainties == {One, Num(16)}
SkuNames == <<"SAFE_SKU", "DEAD_SKU", "VOLATILE_SKU", "SKU_4", "SKU_5">>

\* InventoryManager(lead_time, service_level)
InvInit ==
    /\ lead_time \in LeadTimes
    /\ service_level \in ServiceLevels
    /\ z_score = ppf(service_level)
    /\ inv_op = "__init__"
    /\ inv_args = <<>>
    /\ inv_ret = <<>>
    /\ inv_err = "none"

\* The methods never write self, so every call is explored on the instance
\* as constructed.
calculate_safety_stock(uncertainty_series) ==
    /\ UNCHANGED est_vars
    /\ inv_op = "__init__"
    /\ inv_op' = "calculate_safety_stock"
    /\ inv_args' = <<uncertainty_series>>
    /\ inv_ret' = SafetyStockSeries(z_score, lead_time, uncertainty_series)
    /\ inv_err' = "none"
    /\ UNCHANGED <<lead_time, service_level, z_score>>

detect_dead_inventory(sku, current_inventory, demand_estimate, demand_uncertainty) ==
    /\ UNCHANGED est_vars
    /\ inv_op = "__init__"
    /\ inv_op' = "detect_dead_inventory"
    /\ inv_args' = <<sku, current_inventory, demand_estimate, demand_uncertainty>>
    /\ inv_ret' = DetectResult(z_score, lead_time, sku, current_inventory,
                               demand_estimate, demand_uncertainty)
    /\ inv_err' = "none"
    /\ UNCHANGED <<lead_time, service_level, z_score>>

batch_analysis(skus, inventory_levels, demand_estimates, uncertainty_levels) ==
    /\ UNCHANGED est_vars
    /\ inv_op = "__init__"
    /\ inv_op' = "batch_analysis"
    /\ inv_args' = <<skus, inventory_levels, demand_estimates, uncertainty_levels>>
    /\ IF BatchRaises(skus, inventory_levels, demand_estimates, uncertainty_levels)
       THEN /\ inv_err' = "IndexError"
            /\ inv_ret' = <<>>
       ELSE /\ inv_err' = "none"
            /\ inv_ret' \in SortedFrames(BatchResults(z_score, lead_time, skus,
                               inventory_levels, demand_estimates, uncertainty_levels))
    /\ UNCHANGED <<lead_time, service_level, z_score>>

InvNext ==
    \/ /\ inv_op = "__init__"
       /\ \E u \in SeqsUpTo(Uncertainties, MaxBatch) : calculate_safety_stock(u)
    \/ /\ inv_op = "__init__"
       /\ \E c \in Inventories, d \in Demands, u \in Uncertainties :
            detect_dead_inventory(SkuNames[1], c, d, u)
    \/ /\ inv_op = "__init__"
       /\ \E k \in 0..MaxBatch,
             c \in SeqsUpTo(BatchInventories, MaxBatch),
             d \in SeqsUpTo(BatchDemands, MaxBatch),
             u \in SeqsUpTo(BatchUncertainties, MaxBatch) :
            batch_analysis(SubSeq(SkuNames, 1, k), c, d, u)

\* ------------------------------------------------------------ specifications
vars == <<est_vars, inv_vars>>

\* StateEstimator(): process_noise = 0.1, measurement_noise = 1.0
EstDefault ==
    /\ Q = <<1, 10>>
    /\ R = One
    /\ npScalars = FALSE
    /\ x = Zero
    /\ P = One
    /\ pc = "idle"
    /\ series = <<>>
    /\ n = 0
    /\ i = 0
    /\ estimates = <<>>
    /\ uncertainties = <<>>
    /\ op = "__init__"
    /\ measurement = Zero
    /\ ret = <<>>
    /\ rf_ret = <<>>
    /\ err = "none"
    /\ calls = 0
    /\ steps = 0
    /\ initCalls = 0

\* InventoryManager(): lead_time = 7, service_level = 0.95
InvDefault ==
    /\ lead_time = Num(7)
    /\ service_level = <<19, 20>>
    /\ z_score = ppf(<<19, 20>>)
    /\ inv_op = "__init__"
    /\ inv_args = <<>>
    /\ inv_ret = <<>>
    /\ inv_err = "none"

\* The estimator under every call sequence, beside an unused default policy.
Init == EstInit /\ InvDefault

Next == EstNext

Spec == Init /\ [][Next]_vars

\* The policy engine under every call, beside an unused default estimator.
InitInv == InvInit /\ EstDefault

NextInv == InvNext

SpecInv == InitInv /\ [][NextInv]_vars

\* ------------------------------------------------------------ claims, StateEstimator

\* C1 (as claimed): with Q >= 0, R >= 0 and a start from P >= 0, the variance
\* P is >= 0 after every step of every sequence of predict and update calls.
C1_VarianceNonNegative == Geq(P, Zero)

\* C2: update with the missing marker (NaN) leaves x and P exactly as they
\* were and raises nothing; an observed 0 is not missing: it goes through the
\* gain update, which (for P + R > 0) moves x to x R / (P + R) and P to
\* P R / (P + R) and returns a gain.
C2_MissingNoOp ==
    [][ /\ (op' = "update" /\ isnan(measurement'))
            => (x' = x /\ P' = P /\ err' = "none" /\ ret' = <<x, P>>)
        /\ (op' = "update" /\ measurement' = Zero /\ Gt(Add(P, R), Zero))
            => /\ Len(ret') = 3
               /\ x' = Div(Mul(x, R), Add(P, R))
               /\ P' = Div(Mul(P, R), Add(P, R))
      ]_vars

\* C2 witness: inside run_filter a missing observation has just been skipped,
\* and P is the value the preceding predict produced (10 + Q with Q = 1).
C2_Witness ==
    /\ op = "update"
    /\ isnan(measurement)
    /\ pc # "idle"
    /\ P = Add(Num(10), One)
    /\ ret = <<x, P>>

\* C3 (as claimed): update returns the updated (x, P) together with the gain
\* applied, and the gain reported for a skipped update is exactly 0.
C3_ReturnsGain ==
    (op = "update" /\ err = "none")
        => /\ Len(ret) = 3
           /\ ret[1] = x
           /\ ret[2] = P
           /\ (isnan(measurement) => ret[3] = Zero)

\* C4: when update runs on a present measurement from P >= 0 with R >= 0 and
\* P + R > 0, the gain it computes and returns lies in [0, 1].
C4_GainInUnitInterval ==
    [][ (/\ op' = "update"
         /\ ~isnan(measurement')
         /\ Geq(P, Zero)
         /\ Geq(R, Zero)
         /\ Gt(Add(P, R), Zero))
        => (/\ Len(ret') = 3
            /\ Geq(ret'[3], Zero)
            /\ Leq(ret'[3], One)
            /\ ret'[3] = Div(P, Add(P, R)))
      ]_vars

\* C4 witness: an update with data has returned a gain strictly inside (0, 1).
C4_Witness ==
    /\ op = "update"
    /\ ~isnan(measurement)
    /\ Len(ret) = 3
    /\ Gt(ret[3], Zero)
    /\ Lt(ret[3], One)

\* C5 (as claimed): a present measurement met with P + R = 0 ends in an
\* error, so that no step ever finds x or P undefined (NaN).
C5_NeverUndefined == ~isnan(x) /\ ~isnan(P)

\* The state after k predict-update cycles over s[1..k], written from the
\* closed form of the scalar filter (no gain variable).
RECURSIVE RefState(_, _, _, _)
RefState(s, k, QQ, RR) ==
    IF k = 0 THEN [x |-> IF s[1] = NaN THEN Zero ELSE s[1], P |-> Num(10)]
    ELSE LET prev == RefState(s, k - 1, QQ, RR)
             Pp == Add(prev.P, QQ)
         IN  IF s[k] = NaN THEN [x |-> prev.x, P |-> Pp]
             ELSE [x |-> Div(Add(Mul(prev.x, RR), Mul(Pp, s[k])), Add(Pp, RR)),
                   P |-> Div(Mul(Pp, RR), Add(Pp, RR))]

\* C6: what run_filter returns for a non-empty series of length n is two
\* arrays of length n, entry k of which is the state (x, P) after k
\* predict-update cycles over the first k observations, started from
\* x = series[0] (0 when missing) and P = 10.
C6_RunFilterAligned ==
    (op = "run_filter" /\ err = "none")
        => /\ Len(series) > 0
           /\ Len(rf_ret) = 2
           /\ Len(rf_ret[1]) = Len(series)
           /\ Len(rf_ret[2]) = Len(series)
           /\ \A k \in 1..Len(series) :
                /\ rf_ret[1][k] = RefState(series, k, Q, R).x
                /\ rf_ret[2][k] = RefState(series, k, Q, R).P
           /\ x = rf_ret[1][Len(series)]
           /\ P = rf_ret[2][Len(series)]

\* C6 witness: run_filter has returned for a series that starts with a
\* missing observation followed by a present one, with both noises positive.
C6_Witness ==
    /\ op = "run_filter"
    /\ err = "none"
    /\ Len(series) = 2
    /\ isnan(series[1])
    /\ series[2] = Num(4)
    /\ Q = One
    /\ R = One
    /\ rf_ret = <<<<Zero, <<48, 13>>>>, <<Num(11), <<12, 13>>>>>>

\* C7 (as claimed): initialize runs exactly once in the life of an instance,
\* and it has run before any predict or update does.
C7_InitializeOnceAndFirst ==
    /\ (op \in {"predict", "update"} => initCalls >= 1)
    /\ initCalls <= 1

\* C7 (amended): every run_filter call on a non-empty series performs
\* initialize exactly once, on entry and before the call's predict and update
\* steps, setting x to series[0] (0 when missing) and P to 10; this happens
\* again on every later run_filter call of the instance.
C7_InitializeInRunFilter ==
    [][ /\ (pc = "idle" /\ pc' # "idle")
            => /\ initCalls' = initCalls + 1
               /\ op' = "initialize"
               /\ x' = (IF series'[1] = NaN THEN Zero ELSE series'[1])
               /\ P' = Num(10)
        /\ (pc # "idle")
            => /\ initCalls' = initCalls
               /\ initCalls >= 1
               /\ op' \in {"predict", "update", "run_filter"}
      ]_vars

\* C7 witness: a second run_filter call on the same instance is in its loop,
\* after its own initialize.
C7_Witness == pc = "rf_update" /\ initCalls = 2

\* ------------------------------------------------------------ claims, InventoryManager

\* A policy instance as the data model describes it: a positive lead time
\* and a service level strictly inside (0, 1).
ValidPolicy ==
    /\ Gt(lead_time, Zero)
    /\ Gt(service_level, Zero)
    /\ Lt(service_level, One)

\* C8 (as claimed): the target_inventory of every detect_dead_inventory
\* result is >= 0, for every policy instance and every input.
C8_TargetNonNegative ==
    (inv_op = "detect_dead_inventory" /\ ValidPolicy)
        => Geq(inv_ret.target_inventory, Zero)

\* C8 (amended): for a policy with lead_time >= 0 and service_level in
\* [0.5, 1) (so z >= 0 and finite) and an input with demand_estimate >= 0,
\* the safety stock and the target inventory of the result are >= 0, and the
\* target is at least the cycle stock demand_estimate * lead_time.
C8_TargetNonNegativeValidPolicy ==
    (/\ inv_op = "detect_dead_inventory"
     /\ Geq(lead_time, Zero)
     /\ Geq(service_level, <<1, 2>>)
     /\ Lt(service_level, One)
     /\ Geq(inv_args[3], Zero))
        => /\ Geq(inv_ret.safety_stock, Zero)
           /\ Geq(inv_ret.target_inventory, Zero)
           /\ Geq(inv_ret.target_inventory, round(Mul(inv_args[3], lead_time), 2))

\* C8 witness: the default policy (7 days, 95%) has analysed demand 10 with
\* variance 16: target 70 + 1.645 * sqrt(112) = 87.41.
C8_Witness ==
    /\ inv_op = "detect_dead_inventory"
    /\ lead_time = Num(7)
    /\ service_level = <<19, 20>>
    /\ inv_args[3] = Num(10)
    /\ inv_args[4] = Num(16)
    /\ inv_ret.safety_stock = <<1741, 100>>
    /\ inv_ret.target_inventory = <<8741, 100>>

\* C9 (as claimed): batch_analysis with four sequences that are not all of
\* one length raises an error and returns no result collection, whichever
\* sequence is the shorter or the longer one.
C9_MismatchedLengthsRejected ==
    (/\ inv_op = "batch_analysis"
     /\ ValidPolicy
     /\ \E a, b \in 1..4 : Len(inv_args[a]) # Len(inv_args[b]))
        => inv_err # "none" /\ Len(inv_ret) = 0

\* C10 (as claimed): for sequences of one length batch_analysis returns the
\* per-SKU results rearranged by reduction_potential_pct descending, rows of
\* equal percentage in their input order.
C10_SortedDescendingStable ==
    (/\ inv_op = "batch_analysis"
     /\ ValidPolicy
     /\ \A a, b \in 1..4 : Len(inv_args[a]) = Len(inv_args[b]))
        => LET res == BatchResults(z_score, lead_time, inv_args[1], inv_args[2],
                                   inv_args[3], inv_args[4])
               k == Len(res)
           IN  /\ inv_err = "none"
               /\ Len(inv_ret) = k
               /\ \E f \in Orderings(k) :
                    /\ \A j \in 1..k : inv_ret[j] = res[f[j]]
                    /\ \A a, b \in 1..k :
                         a < b =>
                           /\ Geq(inv_ret[a].reduction_potential_pct,
                                  inv_ret[b].reduction_potential_pct)
                           /\ (inv_ret[a].reduction_potential_pct
                                 = inv_ret[b].reduction_potential_pct => f[a] < f[b])

\* C11 (as claimed): a negative lead_time or a service_level outside (0, 1)
\* is rejected at construction, so every instance that produces a result has
\* lead_time >= 0, a service level strictly inside (0, 1) and a finite z-score.
C11_InvalidPolicyRejected ==
    (inv_op # "__init__" /\ inv_err = "none")
        => /\ Geq(lead_time, Zero)
           /\ Gt(service_level, Zero)
           /\ Lt(service_level, One)
           /\ IsFinite(z_score)

\* Safety stock is non-decreasing in the uncertainty (negative uncertainty
\* counted as 0): among the elements of one calculate_safety_stock call, and
\* among the rows of one batch_analysis frame.
SafetyStockMonotone ==
    /\ inv_op = "calculate_safety_stock"
        => \A j, k \in 1..Len(inv_args[1]) :
              Leq(max(inv_args[1][j], Zero), max(inv_args[1][k], Zero))
                  => Leq(inv_ret[j], inv_ret[k])
    /\ (inv_op = "batch_analysis" /\ inv_err = "none")
        => \A a, b \in 1..Len(inv_ret) :
              \A j, k \in 1..Len(inv_args[1]) :
                  (/\ inv_args[1][j] = inv_ret[a].sku
                   /\ inv_args[1][k] = inv_ret[b].sku
                   /\ Leq(inv_args[4][j], inv_args[4][k]))
                      => Leq(inv_ret[a].safety_stock, inv_ret[b].safety_stock)

\* C12 (as claimed): for a fixed policy instance P1 <= P2 implies
\* safety_stock(P1) <= safety_stock(P2), for all P1 and P2.
C12_SafetyStockMonotone == ValidPolicy => SafetyStockMonotone

\* C12 (amended): the same for a policy with lead_time >= 0 and a service
\* level in [0.5, 1), that is with a finite z >= 0.
C12_SafetyStockMonotoneNonNegativeZ ==
    (/\ Geq(lead_time, Zero)
     /\ Geq(service_level, <<1, 2>>)
     /\ Lt(service_level, One))
        => SafetyStockMonotone

\* C12 witness: the default policy (7 days, 95%) has computed the safety
\* stock of the variances 1 and 16, and the second is the larger:
\* 1.645 * 2.645 = 4.351025 and 1.645 * 10.583 = 17.409035.
C12_Witness ==
    /\ inv_op = "calculate_safety_stock"
    /\ lead_time = Num(7)
    /\ service_level = <<19, 20>>
    /\ inv_args = <<<<One, Num(16)>>>>
    /\ inv_ret = <<Norm(4351025, 1000000), Norm(17409035, 1000000)>>
    /\ Lt(inv_ret[1], inv_ret[2])

\* ------------------------------------------------------------ claims, StateEstimator (continued)

C14_EmptySeriesFailsFast ==
    [][ (pc = "idle" /\ calls' = calls + 1 /\ op' \notin {"initialize", "predict", "update"}
            /\ Len(series') = 0)
        => /\ op' = "run_filter"
           /\ err' # "none"
           /\ rf_ret' = <<>>
           /\ x' = x
           /\ P' = P
           /\ initCalls' = initCalls
           /\ steps' = steps
           /\ pc' = "idle"
      ]_vars

\* C14 witness: an instance initialized to (4, 2) has been handed an empty
\* series; the call raised and the state is still (4, 2).
C14_Witness ==
    /\ op = "run_filter"
    /\ Len(series) = 0
    /\ err = "IndexError"
    /\ rf_ret = <<>>
    /\ initCalls = 1
    /\ x = Num(4)
    /\ P = Num(2)

\* C15: every predict (direct or inside run_filter) succeeds, leaves x as it
\* was, moves P to P + Q and returns (x, P); and no step of any operation
\* changes Q or R.
C15_PredictFrame ==
    [][ /\ Q' = Q
        /\ R' = R
        /\ op' = "predict"
            => /\ x' = x
               /\ P' = Add(P, Q)
               /\ err' = "none"
               /\ ret' = <<x, Add(P, Q)>>
      ]_vars

\* C15 witness: with Q = 1 the first predict of a run_filter call has taken
\* P from 10 to 11 and left x at the first observation, 4.
C15_Witness ==
    /\ op = "predict"
    /\ pc = "rf_update"
    /\ Q = One
    /\ x = Num(4)
    /\ P = Num(11)
    /\ ret = <<Num(4), Num(11)>>

\* ------------------------------------------------------------ claims, InventoryManager (continued)

\* For a detect_dead_inventory result on current_inventory >= 0: the excess
\* lies between 0 and the current inventory, the percentage between 0 and
\* 100, and both are 0 when the inventory is 0 or does not exceed the target
\* demand_estimate * L + z * sqrt(max(P, 0) * L).
ExcessWithinInventory ==
    (inv_op = "detect_dead_inventory" /\ Geq(inv_args[2], Zero))
        => /\ Geq(inv_ret.excess_units, Zero)
           /\ Leq(inv_ret.excess_units, inv_ret.current_inventory)
           /\ Geq(inv_ret.reduction_potential_pct, Zero)
           /\ Leq(inv_ret.reduction_potential_pct, Num(100))
           /\ (\/ inv_args[2] = Zero
               \/ Leq(inv_args[2],
                      Add(Mul(inv_args[3], lead_time),
                          Mul(z_score, sqrt(Mul(max(inv_args[4], Zero), lead_time))))))
                => /\ inv_ret.excess_units = Zero
                   /\ inv_ret.reduction_potential_pct = Zero

====
